---- MODULE Spec2Model ----
(***************************************************************************)
(* Model of auto_edit_my_reels.py: the batch loop of main(), the per-file  *)
(* pipeline open -> trim -> speed -> watermark -> composite -> encode ->   *)
(* caption -> cleanup, resolve_font and make_watermark_badge.              *)
(*                                                                         *)
(* Units: durations in milliseconds, sizes in pixels, mask values in       *)
(* per-mille (1000 = fully opaque).  File names are tuples of characters.  *)
(***************************************************************************)
EXTENDS Integers, Sequences, FiniteSets, TLC

VARIABLES
    dirExists,    \* os.path.isdir(INPUT_DIR)
    listing,      \* os.listdir(INPUT_DIR): set of file names
    files,        \* main: files (sorted eligible names)
    idx,          \* position of the for loop (1-based index into files)
    pc,           \* position inside main
    clip,         \* main: clip (handle id, 0 = not bound)
    subclip,      \* main: subclip (handle id, 0 = not in locals())
    final_clip,   \* main: final_clip (handle id, 0 = not in locals())
    handles,      \* every clip object created so far, by handle id
    src,          \* attributes of the open source clip: duration, w, h
    subDur,       \* subclip.duration
    font,         \* result of resolve_font in the last watermark call
    watermark,    \* main: watermark (None or the overlay clip)
    warned,       \* the warning of line 124 was printed for this file
    placed,       \* where the compositor puts the overlay
    outVideo,     \* OUTPUT_DIR video files: path -> state and writer
    outCaption,   \* OUTPUT_DIR caption files: path -> writer
    opened,       \* the paths handed to VideoFileClip, in order
    result        \* per iteration: outcome reported on the console

vars == <<dirExists, listing, files, idx, pc, clip, subclip, final_clip,
          handles, src, subDur, font, watermark, warned, placed,
          outVideo, outCaption, opened, result>>

----------------------------------------------------------------------------
(* Bounds of the model *)

MaxFiles == 2          \* at most this many entries in the input directory

Durations == {100, 600, 800, 3000}          \* source durations (ms)
Sizes == { <<64, 64>>, <<1080, 1920>> }     \* source frame sizes
SpeedPermille == {1010, 1030}               \* random.uniform(0.01, 0.03)

----------------------------------------------------------------------------
(* Strings *)

NAME_a_mp4 == <<"a", ".", "m", "p", "4">>
NAME_a_MP4 == <<"a", ".", "M", "P", "4">>
NAME_b_mp4 == <<"b", ".", "m", "p", "4">>
NAME_a_txt == <<"a", ".", "t", "x", "t">>

Pool == {NAME_a_mp4, NAME_a_MP4, NAME_b_mp4, NAME_a_txt}

\* ord(c) for the characters that occur in Pool
Ord(c) ==
    CASE c = "." -> 46 [] c = "4" -> 52 [] c = "M" -> 77 [] c = "P" -> 80
      [] c = "a" -> 97 [] c = "b" -> 98 [] c = "m" -> 109 [] c = "p" -> 112
      [] c = "t" -> 116 [] c = "x" -> 120

\* str.lower() on one character
LowerChar(c) ==
    CASE c = "M" -> "m" [] c = "P" -> "p" [] OTHER -> c

Lower(s) == [i \in 1..Len(s) |-> LowerChar(s[i])]

EndsWith(s, suffix) ==
    /\ Len(s) >= Len(suffix)
    /\ SubSeq(s, Len(s) - Len(suffix) + 1, Len(s)) = suffix

DOT_MP4 == <<".", "m", "p", "4">>
DOT_TXT == <<".", "t", "x", "t">>

\* Python's str comparison: lexicographic by code point
StrLess(s, t) ==
    \E k \in 1..(Len(s) + 1) :
        /\ k <= Len(t)
        /\ \A i \in 1..(k - 1) : s[i] = t[i]
        /\ \/ k = Len(s) + 1
           \/ k <= Len(s) /\ Ord(s[k]) < Ord(t[k])

\* sorted(S) for a set of distinct strings
RECURSIVE Sorted(_)
Sorted(S) ==
    IF S = {} THEN <<>>
    ELSE LET m == CHOOSE x \in S : \A y \in S \ {x} : StrLess(x, y)
         IN  <<m>> \o Sorted(S \ {m})

\* os.path.splitext(file)[0]: cut at the last dot that has a non-dot
\* character somewhere before it
SplitExtBase(s) ==
    LET dots == {i \in 1..Len(s) :
                    s[i] = "." /\ \E j \in 1..(i - 1) : s[j] # "."}
    IN  IF dots = {} THEN s
        ELSE LET k == CHOOSE i \in dots : \A j \in dots : j <= i
             IN  SubSeq(s, 1, k - 1)

Eligible(L) == {f \in L : EndsWith(Lower(f), DOT_MP4)}

INPUT_DIR == "reels_downloads"
OUTPUT_DIR == "output_reels"

Join(dir, name) == [dir |-> dir, name |-> name]

video_path(file) == Join(INPUT_DIR, SplitExtBase(file) \o DOT_MP4)
caption_path(file) == Join(INPUT_DIR, SplitExtBase(file) \o DOT_TXT)
output_video_path(file) == Join(OUTPUT_DIR, SplitExtBase(file) \o DOT_MP4)
output_caption_path(file) == Join(OUTPUT_DIR, SplitExtBase(file) \o DOT_TXT)

\* os.path.exists for a path of the input directory (case-sensitive names)
Exists(path) == path.dir = INPUT_DIR /\ path.name \in listing

OutNames == {SplitExtBase(f) \o DOT_MP4 : f \in Pool}
OutCapNames == {SplitExtBase(f) \o DOT_TXT : f \in Pool}

----------------------------------------------------------------------------
(* Clip handles *)

None == [none |-> TRUE]

\* a new clip object: the file (iteration) that created it, what it is,
\* and the iterations whose cleanup called close() on it
NewHandle(i, kind) == [file |-> i, kind |-> kind, closedBy |-> <<>>]

CloseHandle(hs, h, i) == [hs EXCEPT ![h].closedBy = Append(@, i)]

----------------------------------------------------------------------------
(* Trim *)

TrimStart == 200       \* start = 0.2
TrimEndCut == 200      \* clip.duration - 0.2
TrimFloor == 500       \* max(..., 0.5)

Max(a, b) == IF a >= b THEN a ELSE b

TrimEnd(duration) == Max(duration - TrimEndCut, TrimFloor)

\* Clip.subclip(t_start, t_end): the new clip lasts t_end - t_start
SubclipDuration(t_start, t_end) == t_end - t_start

\* vfx.speedx: the duration is divided by the factor
SpeedxDuration(duration, permille) == (duration * 1000) \div permille

----------------------------------------------------------------------------
(* resolve_font *)

NumSystemFonts == 3
DEFAULT_FONT == 0

\* what the file system holds for each candidate of SYSTEM_FONTS
FontEnvs == [1..NumSystemFonts -> {"missing", "broken", "ok"}]

\* the first candidate that exists and loads, else ImageFont.load_default()
resolve_font(env) ==
    LET usable == {i \in 1..NumSystemFonts : env[i] = "ok"}
    IN  IF usable = {} THEN DEFAULT_FONT
        ELSE CHOOSE i \in usable : \A j \in usable : i <= j

----------------------------------------------------------------------------
(* make_watermark_badge *)

font_px(h) == Max(28, (h * 5) \div 100)
pad_x(h) == Max(12, font_px(h) \div 2)
pad_y(h) == Max(6, (font_px(h) * 3) \div 10)
stroke_w(h) == Max(2, (font_px(h) * 8) \div 100)

\* textbbox of "@my_page": a TrueType font is scaled to font_px, the
\* built-in default font has its own fixed size
TextSize(f, h) ==
    IF f = DEFAULT_FONT THEN <<50, 10>>
    ELSE <<4 * font_px(h) + 2 * stroke_w(h), font_px(h) + 2 * stroke_w(h)>>

badge_w(f, h) == TextSize(f, h)[1] + pad_x(h) * 2
badge_h(f, h) == TextSize(f, h)[2] + pad_y(h) * 2

margin_r(w) == Max(40, (w * 35) \div 1000)
margin_b(h) == Max(40, (h * 35) \div 1000)

\* alpha (0..255) of the RGBA badge: transparent canvas outside the rounded
\* rectangle, bg = (0, 0, 0, 120), text and stroke with alpha 255
BadgeAlpha == [r \in {"corner", "bg", "text"} |->
                 CASE r = "corner" -> 0 [] r = "bg" -> 120 [] r = "text" -> 255]

\* ImageClip(png): the alpha channel becomes a separate mask clip, the RGB
\* channels stay as drawn (straight, not premultiplied)
ImageClipLoad(alpha, bw, bh) ==
    [rep |-> "mask", rgb |-> "straight", w |-> bw, h |-> bh,
     mask |-> [r \in DOMAIN alpha |-> (alpha[r] * 1000) \div 255]]

Opacity == 920         \* set_opacity(0.92)

set_opacity(c, op) ==
    [c EXCEPT !.mask = [r \in DOMAIN c.mask |-> (c.mask[r] * op) \div 1000]]

MarginOpacity == 1000  \* margin() is called without opacity: 1.0

\* vfx.margin(right, bottom): a band of colour (0,0,0) is added at the right
\* and at the bottom; the same call is applied to the mask, whose band is
\* filled with the opacity argument
margin(c, right, bottom, opacity) ==
    [c EXCEPT !.w = @ + right, !.h = @ + bottom,
              !.mask = @ @@ ("margin" :> opacity)]

\* the body of the try block, lines 57-121
BadgeClip(f, w, h) ==
    margin(set_opacity(ImageClipLoad(BadgeAlpha, badge_w(f, h), badge_h(f, h)),
                       Opacity),
           margin_r(w), margin_b(h), MarginOpacity)

\* as make_watermark_badge, but the except clause returns None silently
make_watermark_badge_silent(f, w, h, raised) ==
    IF raised THEN [clip |-> None, warned |-> FALSE]
    ELSE [clip |-> BadgeClip(f, w, h), warned |-> FALSE]

\* the whole function: raised is whether a step of the try block raised;
\* the result is the clip, or None with the warning printed
make_watermark_badge(f, w, h, raised) ==
    IF raised THEN [clip |-> None, warned |-> TRUE]
    ELSE [clip |-> BadgeClip(f, w, h), warned |-> FALSE]

\* CompositeVideoClip places a clip positioned ("right", "bottom") at
\* frame size minus clip size
Place(c, w, h) == [x |-> w - c.w, y |-> h - c.h, ow |-> c.w, oh |-> c.h]

\* as ChooseFinal, but the composite is built whether or not there is a
\* watermark
ChooseFinalAlwaysComposite(wm, composite, sub) == composite

\* line 169
ChooseFinal(wm, composite, sub) == IF wm # None THEN composite ELSE sub

----------------------------------------------------------------------------
(* main *)

NoSrc == [duration |-> 0, w |-> 0, h |-> 0]
NoFont == -1
Pending == [status |-> "pending", stage |-> "none"]
Absent == [state |-> "absent", by |-> 0]

Init ==
    /\ dirExists \in BOOLEAN
    /\ listing \in {L \in SUBSET Pool : Cardinality(L) <= MaxFiles}
    /\ (~dirExists => listing = {})
    /\ files = <<>>
    /\ idx = 0
    /\ pc = "start"
    /\ clip = 0 /\ subclip = 0 /\ final_clip = 0
    /\ handles = <<>>
    /\ src = NoSrc
    /\ subDur = 0
    /\ font = NoFont
    /\ watermark = None
    /\ warned = FALSE
    /\ placed = None
    /\ outVideo = [n \in OutNames |-> Absent]
    /\ outCaption = [n \in OutCapNames |-> 0]
    /\ opened = <<>>
    /\ result = <<>>

scratch == <<src, subDur, font, watermark, warned, placed>>
bindings == <<clip, subclip, final_clip, handles>>
outputs == <<outVideo, outCaption>>
dirState == <<dirExists, listing>>

\* lines 132-134
NoInputDir ==
    /\ pc = "start" /\ ~dirExists
    /\ pc' = "returned"
    /\ UNCHANGED <<dirState, files, idx, bindings, scratch, outputs, opened, result>>

\* lines 136-139
NoFiles ==
    /\ pc = "start" /\ dirExists /\ Eligible(listing) = {}
    /\ pc' = "returned"
    /\ UNCHANGED <<dirState, files, idx, bindings, scratch, outputs, opened, result>>

\* lines 136-141
Discover ==
    /\ pc = "start" /\ dirExists /\ Eligible(listing) # {}
    /\ files' = Sorted(Eligible(listing))
    /\ idx' = 1
    /\ result' = [i \in 1..Cardinality(Eligible(listing)) |-> Pending]
    /\ pc' = "open"
    /\ UNCHANGED <<dirState, bindings, scratch, outputs, opened>>

\* the for loop moves on to the next file, or ends
Advance ==
    IF idx < Len(files) THEN idx' = idx + 1 /\ pc' = "open"
    ELSE idx' = idx /\ pc' = "finish"

\* as Raise, but the exception is not caught per file: it ends the loop
RaiseEndsLoop(stage) ==
    /\ result' = [result EXCEPT ![idx] = [status |-> "error", stage |-> stage]]
    /\ pc' = "finish"
    /\ idx' = idx

\* the per-file except clause, lines 202-203
Raise(stage) ==
    /\ result' = [result EXCEPT ![idx] = [status |-> "error", stage |-> stage]]
    /\ pc' = "finally"
    /\ idx' = idx

\* lines 142-150: VideoFileClip(video_path) succeeds
OpenOK ==
    /\ pc = "open"
    /\ Exists(video_path(files[idx]))
    /\ \E d \in Durations, size \in Sizes :
          src' = [duration |-> d, w |-> size[1], h |-> size[2]]
    /\ handles' = Append(handles, NewHandle(idx, "source"))
    /\ clip' = Len(handles) + 1
    /\ opened' = Append(opened, video_path(files[idx]))
    /\ pc' = "trim"
    /\ UNCHANGED <<dirState, files, idx, subclip, final_clip, subDur, font,
                   watermark, warned, placed, outputs, result>>

\* lines 151-153: the path does not exist, or the file cannot be decoded
OpenFail ==
    /\ pc = "open"
    /\ opened' = Append(opened, video_path(files[idx]))
    /\ result' = [result EXCEPT ![idx] = [status |-> "open_failed", stage |-> "open"]]
    /\ Advance
    /\ UNCHANGED <<dirState, files, bindings, scratch, outputs>>

\* lines 156-161
TrimOK ==
    /\ pc = "trim"
    /\ TrimStart <= src.duration
    /\ handles' = Append(handles, NewHandle(idx, "trimmed"))
    /\ subclip' = Len(handles) + 1
    /\ subDur' = SubclipDuration(TrimStart, TrimEnd(src.duration))
    /\ pc' = "speed"
    /\ UNCHANGED <<dirState, files, idx, clip, final_clip, src, font, watermark,
                   warned, placed, outputs, opened, result>>

\* line 161: subclip() raises when t_start lies beyond the clip's duration
TrimFail ==
    /\ pc = "trim"
    /\ TrimStart > src.duration
    /\ Raise("trim")
    /\ UNCHANGED <<dirState, files, bindings, scratch, outputs, opened>>

\* lines 164-165
SpeedOK ==
    /\ pc = "speed"
    /\ \E speed \in SpeedPermille : subDur' = SpeedxDuration(subDur, speed)
    /\ handles' = Append(handles, NewHandle(idx, "sped"))
    /\ subclip' = Len(handles) + 1
    /\ pc' = "watermark"
    /\ UNCHANGED <<dirState, files, idx, clip, final_clip, src, font, watermark,
                   warned, placed, outputs, opened, result>>

SpeedFail ==
    /\ pc = "speed"
    /\ Raise("speed")
    /\ UNCHANGED <<dirState, files, bindings, scratch, outputs, opened>>

\* line 168 with lines 51-125.  With a TrueType font any later step may
\* still raise; with the built-in default font the text measurement raises
\* or not, depending on what the imaging library supports for that font.
Watermark ==
    /\ pc = "watermark"
    /\ \E env \in FontEnvs, raised \in BOOLEAN :
          LET f == resolve_font(env)
              r == make_watermark_badge(f, src.w, src.h, raised)
          IN  /\ font' = f
              /\ watermark' = r.clip
              /\ warned' = r.warned
    /\ pc' = "composite"
    /\ UNCHANGED <<dirState, files, idx, bindings, src, subDur, placed,
                   outputs, opened, result>>

\* line 169
CompositeOK ==
    /\ pc = "composite"
    /\ LET new == Len(handles) + 1
       IN  /\ final_clip' = ChooseFinal(watermark, new, subclip)
           /\ handles' = IF final_clip' = new
                           THEN Append(handles, NewHandle(idx, "composite"))
                           ELSE handles
    /\ placed' = IF watermark # None THEN Place(watermark, src.w, src.h) ELSE None
    /\ pc' = "encode"
    /\ UNCHANGED <<dirState, files, idx, clip, subclip, src, subDur, font,
                   watermark, warned, outputs, opened, result>>

CompositeFail ==
    /\ pc = "composite"
    /\ watermark # None
    /\ Raise("composite")
    /\ UNCHANGED <<dirState, files, bindings, scratch, outputs, opened>>

\* lines 178-185
EncodeOK ==
    /\ pc = "encode"
    /\ outVideo' = [outVideo EXCEPT ![output_video_path(files[idx]).name] =
                       [state |-> "complete", by |-> idx]]
    /\ pc' = "caption_read"
    /\ UNCHANGED <<dirState, files, idx, bindings, scratch, outCaption, opened, result>>

\* write_videofile writes to output_video_path itself: a failure before the
\* encoder starts leaves the path alone, a later one leaves a partial file
EncodeFail ==
    /\ pc = "encode"
    /\ \/ UNCHANGED outVideo
       \/ outVideo' = [outVideo EXCEPT ![output_video_path(files[idx]).name] =
                          [state |-> "partial", by |-> idx]]
    /\ Raise("encode")
    /\ UNCHANGED <<dirState, files, bindings, scratch, outCaption, opened>>

\* lines 188-195
CaptionReadOK ==
    /\ pc = "caption_read"
    /\ pc' = "caption_write"
    /\ UNCHANGED <<dirState, files, idx, bindings, scratch, outputs, opened, result>>

\* lines 189-190: the caption file exists but cannot be read or decoded
CaptionReadFail ==
    /\ pc = "caption_read"
    /\ Exists(caption_path(files[idx]))
    /\ Raise("caption_read")
    /\ UNCHANGED <<dirState, files, bindings, scratch, outputs, opened>>

\* lines 197-200
CaptionWriteOK ==
    /\ pc = "caption_write"
    /\ outCaption' = [outCaption EXCEPT ![output_caption_path(files[idx]).name] = idx]
    /\ result' = [result EXCEPT ![idx] = [status |-> "done", stage |-> "none"]]
    /\ pc' = "finally"
    /\ UNCHANGED <<dirState, files, idx, bindings, scratch, outVideo, opened>>

CaptionWriteFail ==
    /\ pc = "caption_write"
    /\ Raise("caption_write")
    /\ UNCHANGED <<dirState, files, bindings, scratch, outputs, opened>>

\* lines 207-211
CloseFinal(hs, fc, c, i) ==
    IF fc # 0 /\ fc # c THEN CloseHandle(hs, fc, i) ELSE hs

\* lines 212-216
CloseSub(hs, sc, c, i) ==
    IF sc # 0 /\ sc # c THEN CloseHandle(hs, sc, i) ELSE hs

\* as CloseClip, but the source clip is closed on the success path only
CloseClipOnSuccess(hs, c, i) ==
    IF result[i].status = "done" THEN CloseHandle(hs, c, i) ELSE hs

\* lines 217-220
CloseClip(hs, c, i) == CloseHandle(hs, c, i)

\* the finally block, lines 205-220, then the next iteration.  The values
\* of w, h, speed, watermark are not read again before they are reassigned.
Finally ==
    /\ pc = "finally"
    /\ handles' = CloseClip(CloseSub(CloseFinal(handles, final_clip, clip, idx),
                                     subclip, clip, idx),
                            clip, idx)
    /\ src' = NoSrc /\ subDur' = 0 /\ font' = NoFont /\ watermark' = None
    /\ warned' = FALSE /\ placed' = None
    /\ Advance
    /\ UNCHANGED <<dirState, files, clip, subclip, final_clip, outputs, opened, result>>

\* line 222
AllProcessed ==
    /\ pc = "finish"
    /\ pc' = "done"
    /\ UNCHANGED <<dirState, files, idx, bindings, scratch, outputs, opened, result>>

Next ==
    \/ NoInputDir \/ NoFiles \/ Discover
    \/ OpenOK \/ OpenFail
    \/ TrimOK \/ TrimFail
    \/ SpeedOK \/ SpeedFail
    \/ Watermark
    \/ CompositeOK \/ CompositeFail
    \/ EncodeOK \/ EncodeFail
    \/ CaptionReadOK \/ CaptionReadFail
    \/ CaptionWriteOK \/ CaptionWriteFail
    \/ Finally
    \/ AllProcessed

Spec == Init /\ [][Next]_vars

----------------------------------------------------------------------------
(* Properties *)

Iterations == 1..Len(files)

\* the per-file handler of iteration i has run to its end
Finished(i) == i < idx \/ (i = idx /\ pc \in {"finish", "done"})

ClosedIn(i) == {h \in 1..Len(handles) :
                   \E k \in 1..Len(handles[h].closedBy) : handles[h].closedBy[k] = i}

\* C1: every source clip that was opened is closed exactly once by the
\* handler of its own file, whatever stage failed, and not before the
\* handler ends; the handler of a file whose open failed closes nothing.
C1_SourceClosedOnce ==
    /\ \A h \in 1..Len(handles) :
          handles[h].kind = "source" =>
             LET i == handles[h].file
             IN  /\ result[i].status # "open_failed"
                 /\ Finished(i) => handles[h].closedBy = <<i>>
                 /\ ~Finished(i) => handles[h].closedBy = <<>>
    /\ \A i \in Iterations :
          result[i].status = "open_failed" => ClosedIn(i) = {}

C1_Witness ==
    /\ pc = "done"
    /\ Len(files) = 2
    /\ result[1].status = "open_failed"
    /\ result[2] = [status |-> "error", stage |-> "encode"]
    /\ \E h \in 1..Len(handles) :
          handles[h] = [file |-> 2, kind |-> "source", closedBy |-> <<2>>]

\* C2: the cleanup of a file closes only handles created while that file
\* was processed, and closes no handle twice.
C2_CleanupOwnHandlesOnce ==
    \A h \in 1..Len(handles) :
        /\ Len(handles[h].closedBy) <= 1
        /\ \A k \in 1..Len(handles[h].closedBy) :
              handles[h].closedBy[k] = handles[h].file

\* C3: the loop visits every eligible file once, in sorted order, whatever
\* fails; a file none of whose stages fails has its video and caption
\* written when its handler reaches the cleanup.
C3_FailureIsolation ==
    /\ pc \notin {"start", "returned"} =>
          /\ {files[i] : i \in Iterations} = Eligible(listing)
          /\ \A i, j \in Iterations : i < j => StrLess(files[i], files[j])
          /\ Len(opened) = (IF pc = "open" THEN idx - 1 ELSE idx)
          /\ \A i \in 1..Len(opened) : opened[i] = video_path(files[i])
          /\ \A i \in Iterations :
                result[i].status = "pending" <=>
                   (i > idx \/ (i = idx /\ pc \notin {"finally", "finish", "done"}))
    /\ pc \in {"finish", "done"} =>
          \A i \in Iterations : result[i].status \in {"open_failed", "error", "done"}
    /\ (pc = "finally" /\ result[idx].status = "done") =>
          /\ outVideo[output_video_path(files[idx]).name] =
                [state |-> "complete", by |-> idx]
          /\ outCaption[output_caption_path(files[idx]).name] = idx

C3_Witness ==
    /\ pc = "done"
    /\ files = <<NAME_a_mp4, NAME_b_mp4>>
    /\ result[1] = [status |-> "error", stage |-> "speed"]
    /\ result[2].status = "done"
    /\ outVideo[NAME_b_mp4] = [state |-> "complete", by |-> 2]
    /\ outCaption[SplitExtBase(NAME_b_mp4) \o DOT_TXT] = 2

\* C4: after the trim the subclip lasts d - 2*trim when d >= floor + 2*trim
\* and exactly floor otherwise.
C4_TrimDuration ==
    pc = "speed" =>
        subDur = (IF src.duration >= TrimFloor + TrimStart + TrimEndCut
                    THEN src.duration - TrimStart - TrimEndCut
                    ELSE TrimFloor)

\* C5: when main has finished, no file reported as failed has an output
\* video written by its own iteration.
C5_NoOutputForFailedFile ==
    pc = "done" =>
        \A i \in Iterations :
            result[i].status \in {"open_failed", "error"} =>
                \A n \in OutNames : outVideo[n].by # i

\* C6: a failure inside make_watermark_badge never fails the file: the
\* function returns None, main keeps the sped-up subclip of this file as
\* final clip, encodes it and can report success.
C6_WatermarkDegrades ==
    /\ \A i \in Iterations : result[i].stage # "watermark"
    /\ (pc \in {"composite", "encode"} /\ warned) =>
          watermark = None /\ result[idx] = Pending
    /\ (pc \in {"encode", "caption_read", "caption_write"} /\ watermark = None) =>
          /\ final_clip = subclip
          /\ handles[final_clip] = [file |-> idx, kind |-> "sped", closedBy |-> <<>>]
          /\ placed = None
    /\ (pc \in {"caption_read", "caption_write"} /\ warned) =>
          outVideo[output_video_path(files[idx]).name] =
             [state |-> "complete", by |-> idx]

C6_Witness ==
    /\ pc = "finally"
    /\ result[idx].status = "done"
    /\ warned /\ watermark = None
    /\ final_clip = subclip
    /\ font # DEFAULT_FONT

\* C7 as stated: with no usable candidate font the video is encoded without
\* a watermark and the warning was printed.
C7_NoFontNoWatermark ==
    (pc \in {"encode", "caption_read", "caption_write"} /\ font = DEFAULT_FONT) =>
        watermark = None /\ warned

\* C7 amended: with no usable candidate font resolve_font hands out the
\* built-in default font and the file is not failed by it: the video is
\* encoded with a watermark and no warning when rendering with that font
\* works, and without a watermark and with the warning when it raises.
C7_DefaultFontFallback ==
    /\ pc \in {"composite", "encode", "caption_read", "caption_write"} =>
          font \in 0..NumSystemFonts
    /\ font = DEFAULT_FONT =>
          /\ (watermark = None) <=> warned
          /\ pc = "composite" => result[idx] = Pending
          /\ watermark # None =>
                /\ watermark.w = badge_w(DEFAULT_FONT, src.h) + margin_r(src.w)
                /\ watermark.h = badge_h(DEFAULT_FONT, src.h) + margin_b(src.h)
          /\ pc \in {"caption_read", "caption_write"} =>
                outVideo[output_video_path(files[idx]).name] =
                   [state |-> "complete", by |-> idx]

C7_Witness ==
    /\ pc = "caption_read"
    /\ font = DEFAULT_FONT
    /\ watermark # None /\ ~warned
    /\ final_clip # subclip
    /\ outVideo[output_video_path(files[idx]).name] =
          [state |-> "complete", by |-> idx]

\* C8: the placed overlay (badge plus margins) lies inside the frame.
C8_OverlayInsideFrame ==
    placed # None =>
        /\ 0 <= placed.x
        /\ 0 <= placed.y
        /\ placed.x + placed.ow <= src.w
        /\ placed.y + placed.oh <= src.h

\* C9: the overlay reaches the compositor with a separate mask and straight
\* RGB, and every area added around the badge is fully transparent.
C9_AlphaConsistent ==
    (pc = "encode" /\ watermark # None) =>
        /\ watermark.rep = "mask"
        /\ watermark.rgb = "straight"
        /\ watermark.mask["corner"] = 0
        /\ watermark.mask["margin"] = 0

\* C10: the path opened for a listed file is that file's own path, and
\* distinct listed files have distinct opened paths and output paths.
C10_OpensListedFile ==
    /\ \A i \in 1..Len(opened) : opened[i] = Join(INPUT_DIR, files[i])
    /\ \A i, j \in 1..Len(opened) :
          i # j => /\ video_path(files[i]) # video_path(files[j])
                   /\ output_video_path(files[i]) # output_video_path(files[j])

====
